---- MODULE Spec2Model ----
(***************************************************************************)
(* PID lock files (src/src/lib.rs): PidFile::new, PidFile::is_locked, the  *)
(* Drop of a PidFile and the helper pid_file_in_use, run by several        *)
(* processes against a shared filesystem and process table.                *)
(*                                                                         *)
(* Every system call of the code (exists, read_to_string, kill,            *)
(* remove_file, getpid + write) is one step of the calling process, so the *)
(* calls of different processes interleave between system calls (Spec).    *)
(* SpecSerial runs every call to completion before the next one starts;    *)
(* SpecFaulty does the same on a filesystem whose calls may fail.          *)
(***************************************************************************)
EXTENDS Integers, Sequences, FiniteSets, TLC

\* ------------------------------------------------------------------ bounds
\* process identifiers are 9..MaxPid (one digit and two digits)
MaxPid == 10
\* handles one process may hold for one path at a time
MaxHandles == 2

Pids == 9..MaxPid
Paths == {"/a"}
\* principals owning processes: kill(2) needs the same principal
Uids == {"u1", "u2"}

\* the content of a path that has no file (no text: texts are made of
\* single characters)
NoFile == <<"ENOENT">>
NoPath == "NoPath"

\* ------------------------------------------------------------- text layer
Digits == <<"0", "1", "2", "3", "4", "5", "6", "7", "8", "9">>

IsDigit(c) == \E i \in 1..10 : Digits[i] = c

DigitVal(c) == (CHOOSE i \in 1..10 : Digits[i] = c) - 1

\* char::is_whitespace, on the characters used here
IsWhite(c) == c \in {" ", "\n", "\t"}

\* libc::pid_t is i32
PidTMax == 2147483647

RECURSIVE TrimStart(_)
TrimStart(s) ==
  IF s # <<>> /\ IsWhite(Head(s)) THEN TrimStart(Tail(s)) ELSE s

RECURSIVE TrimEnd(_)
TrimEnd(s) ==
  IF s # <<>> /\ IsWhite(s[Len(s)]) THEN TrimEnd(SubSeq(s, 1, Len(s) - 1)) ELSE s

\* str::trim
trim(s) == TrimEnd(TrimStart(s))

\* format!("{}", pid) of an i32: decimal digits, '-' first when negative
RECURSIVE FormatNat(_)
FormatNat(n) ==
  IF n < 10 THEN <<Digits[n + 1]>>
  ELSE Append(FormatNat(n \div 10), Digits[(n % 10) + 1])

format(n) == IF n < 0 THEN <<"-">> \o FormatNat(0 - n) ELSE FormatNat(n)

\* the digits of s folded into acc as from_str_radix does it: added for a
\* positive number, subtracted for a negative one, each step checked
\* against the i32 range
RECURSIVE ParseDigits(_, _, _)
ParseDigits(s, acc, neg) ==
  IF s = <<>> THEN [ok |-> TRUE, val |-> acc]
  ELSE IF ~IsDigit(Head(s)) THEN [ok |-> FALSE, val |-> 0]
  ELSE LET d == DigitVal(Head(s))
           q == PidTMax \div 10
           m == PidTMax % 10
       IN  IF neg
           THEN IF acc < 0 - q \/ (acc = 0 - q /\ d > m + 1)
                THEN [ok |-> FALSE, val |-> 0]
                ELSE ParseDigits(Tail(s), acc * 10 - d, neg)
           ELSE IF acc > q \/ (acc = q /\ d > m)
                THEN [ok |-> FALSE, val |-> 0]
                ELSE ParseDigits(Tail(s), acc * 10 + d, neg)

\* <i32 as FromStr>::from_str: an optional sign, then one or more digits
parse(s) ==
  IF s = <<>> THEN [ok |-> FALSE, val |-> 0]
  ELSE LET neg  == Head(s) = "-"
           body == IF Head(s) \in {"-", "+"} THEN Tail(s) ELSE s
       IN  IF body = <<>> THEN [ok |-> FALSE, val |-> 0]
           ELSE ParseDigits(body, 0, neg)

\* marker files found on disk before any call: none, malformed ones, ones
\* naming processes of the model (with and without surrounding whitespace),
\* numbers that are no process identifier, and the identifier UnusedPid of
\* a process that never exists
UnusedPid == 7

InitialContents ==
  {NoFile, <<>>, <<"x">>, <<"9", "x">>, <<" ", "9", "\n">>, <<"0">>,
   <<"-", "1">>, format(UnusedPid)}
    \cup {format(p) : p \in Pids}

\* ------------------------------------------------------------------ state
VARIABLES
  file,      \* file[path]: NoFile or the text of the file at path
  alive,     \* the process identifiers in use by a running process
  uid,       \* uid[p]: the principal process p runs as
  handles,   \* handles[p][path]: live PidFile values of p owning path
  pc,        \* pc[p]: the system call p makes next ("idle": between calls)
  op,        \* op[p]: the call p is in: "none", "new", "is_locked"
  arg,       \* arg[p]: the path of that call
  pidv,      \* pidv[p]: the pid parsed by pid_file_in_use
  pre,       \* pre[p]: the file at arg[p] when the call started
  last,      \* what the step just taken returned to its caller (else NoCall)
  denied     \* some liveness probe of a running process was refused (EPERM)

vars == <<file, alive, uid, handles, pc, op, arg, pidv, pre, last, denied>>

\* last: proc called op(path); ret is what it got back; pre and post are
\* the file at path when the call started and when it returned; held the
\* handles of proc for path after the call and gain how many the call
\* added; diag: the call printed to stderr.  op "crash": proc ended
\* without unwinding, held being what it held before.
NoCall ==
  [proc |-> 0, op |-> "none", path |-> NoPath, ret |-> "none",
   pre |-> NoFile, post |-> NoFile, held |-> 0, gain |-> 0, diag |-> FALSE]

Init ==
  /\ file \in [Paths -> InitialContents]
  /\ alive = {}
  /\ uid = [p \in Pids |-> "u1"]
  /\ handles = [p \in Pids |-> [f \in Paths |-> 0]]
  /\ pc = [p \in Pids |-> "idle"]
  /\ op = [p \in Pids |-> "none"]
  /\ arg = [p \in Pids |-> NoPath]
  /\ pidv = [p \in Pids |-> 0]
  /\ pre = [p \in Pids |-> NoFile]
  /\ last = NoCall
  /\ denied = FALSE

\* ---------------------------------------------------------- system calls
\* Path::exists
exists(path) == file[path] # NoFile

\* getpid mistaken for getppid: the identifier of another process
getpid_wrong(p) == p + 1

\* libc::getpid
getpid(p) == p

\* errno values
EPERM == 1
ENOENT == 2
ESRCH == 3
EINVAL == 22

\* libc::kill(pid, 0) called by process p: the possible (return value,
\* errno) pairs.  pid > 0 names one process; 0 the caller's process group,
\* which the caller belongs to; below 0 a process group, or every process
\* the caller may signal, of which the model knows nothing.  fault: the
\* system fails the call for a reason that is neither a missing process nor
\* a missing permission.
kill(p, pid, fault) ==
  IF fault THEN {[ret |-> -1, errno |-> EINVAL]}
  ELSE IF pid > 0 THEN
    IF pid \in alive
    THEN IF uid[pid] = uid[p] THEN {[ret |-> 0, errno |-> 0]}
         ELSE {[ret |-> -1, errno |-> EPERM]}
    ELSE {[ret |-> -1, errno |-> ESRCH]}
  ELSE IF pid = 0 THEN {[ret |-> 0, errno |-> 0]}
  ELSE {[ret |-> 0, errno |-> 0], [ret |-> -1, errno |-> ESRCH],
        [ret |-> -1, errno |-> EPERM]}

\* std::fs::read_to_string; fault: the environment fails the read of an
\* existing file (permissions, I/O)
read_to_string(path, fault) ==
  IF file[path] = NoFile THEN [ok |-> FALSE, kind |-> "NotFound", text |-> <<>>]
  ELSE IF fault THEN [ok |-> FALSE, kind |-> "PermissionDenied", text |-> <<>>]
  ELSE [ok |-> TRUE, kind |-> "none", text |-> file[path]]

\* std::fs::remove_file: the files afterwards, and whether it returned Ok
remove_file(path, fault) ==
  IF file[path] = NoFile \/ fault
  THEN [ok |-> FALSE, files |-> file]
  ELSE [ok |-> TRUE, files |-> [file EXCEPT ![path] = NoFile]]

\* a write that opens the file for appending instead of truncating it
write_append(path, text, fault) ==
  IF fault THEN [ok |-> FALSE, files |-> file]
  ELSE [ok |-> TRUE,
        files |-> [file EXCEPT ![path] = IF @ = NoFile THEN text ELSE @ \o text]]

\* std::fs::write: create or truncate
write(path, text, fault) ==
  IF fault THEN [ok |-> FALSE, files |-> file]
  ELSE [ok |-> TRUE, files |-> [file EXCEPT ![path] = text]]

\* ------------------------------------------------------- return to caller
\* the call of p returns ret
Return(p, ret, newfile, newhandles) ==
  /\ file' = newfile
  /\ handles' = newhandles
  /\ last' = [proc |-> p, op |-> op[p], path |-> arg[p], ret |-> ret,
              pre |-> pre[p], post |-> newfile[arg[p]],
              held |-> newhandles[p][arg[p]],
              gain |-> newhandles[p][arg[p]] - handles[p][arg[p]],
              diag |-> FALSE]
  /\ pc' = [pc EXCEPT ![p] = "idle"]
  /\ op' = [op EXCEPT ![p] = "none"]
  /\ arg' = [arg EXCEPT ![p] = NoPath]
  /\ pidv' = [pidv EXCEPT ![p] = 0]
  /\ pre' = [pre EXCEPT ![p] = NoFile]

\* p goes on to its next system call
Goto(p, label, v) ==
  /\ pc' = [pc EXCEPT ![p] = label]
  /\ pidv' = [pidv EXCEPT ![p] = v]
  /\ last' = NoCall
  /\ UNCHANGED <<file, handles, op, arg, pre>>

\* the match with the InvalidData arms left out: the error goes to the caller
AfterInUse_propagate(p, r) ==
  IF op[p] = "new" THEN
    CASE r = "Ok(true)" -> Return(p, "Err(AddrInUse)", file, handles)
      [] r = "Ok(false)" -> Goto(p, "remove", 0)
      [] OTHER -> Return(p, r, file, handles)
  ELSE
    CASE r = "Ok(true)" -> Return(p, "Ok(true)", file, handles)
      [] r = "Ok(false)" -> Return(p, "Ok(false)", file, handles)
      [] OTHER -> Return(p, r, file, handles)

\* a match that takes every error of pid_file_in_use for "not in use"
AfterInUse_swallow(p, r) ==
  IF op[p] = "new" THEN
    CASE r = "Ok(true)" -> Return(p, "Err(AddrInUse)", file, handles)
      [] OTHER -> Goto(p, "remove", 0)
  ELSE
    CASE r = "Ok(true)" -> Return(p, "Ok(true)", file, handles)
      [] OTHER -> Return(p, "Ok(false)", file, handles)

\* the match of PidFile::new taking a marker in use for a stale one
AfterInUse_reclaim(p, r) ==
  IF op[p] = "new" THEN
    CASE r = "Ok(true)" -> Goto(p, "remove", 0)
      [] r = "Ok(false)" -> Goto(p, "remove", 0)
      [] r = "Err(InvalidData)" -> Goto(p, "remove", 0)
      [] OTHER -> Return(p, r, file, handles)
  ELSE
    CASE r = "Ok(true)" -> Return(p, "Ok(true)", file, handles)
      [] r = "Ok(false)" -> Return(p, "Ok(false)", file, handles)
      [] r = "Err(InvalidData)" -> Return(p, "Ok(false)", file, handles)
      [] OTHER -> Return(p, r, file, handles)

\* the match on pid_file_in_use's result in PidFile::new and in
\* PidFile::is_locked: r is "Ok(true)", "Ok(false)", "Err(InvalidData)" or
\* another error, "Err(io)"
AfterInUse(p, r) ==
  IF op[p] = "new" THEN
    CASE r = "Ok(true)" -> Return(p, "Err(AddrInUse)", file, handles)
      [] r = "Ok(false)" -> Goto(p, "remove", 0)
      [] r = "Err(InvalidData)" -> Goto(p, "remove", 0)
      [] OTHER -> Return(p, r, file, handles)
  ELSE
    CASE r = "Ok(true)" -> Return(p, "Ok(true)", file, handles)
      [] r = "Ok(false)" -> Return(p, "Ok(false)", file, handles)
      [] r = "Err(InvalidData)" -> Return(p, "Ok(false)", file, handles)
      [] OTHER -> Return(p, r, file, handles)

\* ---------------------------------------------------------------- actions
\* PidFile::new, first step: path.exists()
new_exists(p, path) ==
  /\ p \in alive /\ pc[p] = "idle"
  /\ handles[p][path] < MaxHandles
  /\ op' = [op EXCEPT ![p] = "new"]
  /\ arg' = [arg EXCEPT ![p] = path]
  /\ pre' = [pre EXCEPT ![p] = file[path]]
  /\ pc' = [pc EXCEPT ![p] = IF exists(path) THEN "read" ELSE "write"]
  /\ last' = NoCall
  /\ UNCHANGED <<file, alive, uid, handles, pidv, denied>>

\* PidFile::is_locked is called: pid_file_in_use(path) comes next
is_locked(p, path) ==
  /\ p \in alive /\ pc[p] = "idle"
  /\ op' = [op EXCEPT ![p] = "is_locked"]
  /\ arg' = [arg EXCEPT ![p] = path]
  /\ pre' = [pre EXCEPT ![p] = file[path]]
  /\ pc' = [pc EXCEPT ![p] = "read"]
  /\ last' = NoCall
  /\ UNCHANGED <<file, alive, uid, handles, pidv, denied>>

\* pid_file_in_use without the NotFound arm: a missing file is an error
pid_file_in_use_read_strict(p, fault) ==
  /\ p \in alive /\ pc[p] = "read"
  /\ LET got == read_to_string(arg[p], fault) IN
     IF got.ok
     THEN LET r == parse(trim(got.text)) IN
          IF r.ok THEN Goto(p, "kill", r.val)
          ELSE AfterInUse(p, "Err(InvalidData)")
     ELSE AfterInUse(p, "Err(io)")
  /\ UNCHANGED <<alive, uid, denied>>

\* pid_file_in_use up to the probe: read_to_string, trim, parse
pid_file_in_use_read(p, fault) ==
  /\ p \in alive /\ pc[p] = "read"
  /\ LET got == read_to_string(arg[p], fault) IN
     IF got.ok
     THEN LET r == parse(trim(got.text)) IN
          IF r.ok THEN Goto(p, "kill", r.val)
          ELSE AfterInUse(p, "Err(InvalidData)")
     ELSE IF got.kind = "NotFound" THEN AfterInUse(p, "Ok(false)")
     ELSE AfterInUse(p, "Err(io)")
  /\ UNCHANGED <<alive, uid, denied>>

\* the test of kill's result the wrong way round
pid_file_in_use_kill_inverted(p, fault) ==
  /\ p \in alive /\ pc[p] = "kill"
  /\ \E k \in kill(p, pidv[p], fault) :
       /\ denied' = (denied \/ (k.errno = EPERM /\ pidv[p] \in alive))
       /\ IF k.ret = 0 THEN AfterInUse(p, "Ok(false)")
          ELSE AfterInUse(p, "Ok(true)")
  /\ UNCHANGED <<alive, uid>>

\* every failed probe reported as an error, a missing process too
pid_file_in_use_kill_strict(p, fault) ==
  /\ p \in alive /\ pc[p] = "kill"
  /\ \E k \in kill(p, pidv[p], fault) :
       /\ denied' = (denied \/ (k.errno = EPERM /\ pidv[p] \in alive))
       /\ IF k.ret = 0 THEN AfterInUse(p, "Ok(true)")
          ELSE AfterInUse(p, "Err(io)")
  /\ UNCHANGED <<alive, uid>>

\* pid_file_in_use: libc::kill(pid, 0) and the branches on what it returns
pid_file_in_use_kill(p, fault) ==
  /\ p \in alive /\ pc[p] = "kill"
  /\ \E k \in kill(p, pidv[p], fault) :
       /\ denied' = (denied \/ (k.errno = EPERM /\ pidv[p] \in alive))
       /\ IF k.ret = 0 THEN AfterInUse(p, "Ok(true)")
          ELSE IF k.ret = -1 THEN AfterInUse(p, "Ok(false)")
          ELSE IF k.ret = ENOENT THEN AfterInUse(p, "Ok(false)")
          ELSE AfterInUse(p, "Err(io)")
  /\ UNCHANGED <<alive, uid>>

\* PidFile::new: let _ = std::fs::remove_file(&path), stale or invalid
new_remove(p, fault) ==
  /\ p \in alive /\ pc[p] = "remove"
  /\ file' = remove_file(arg[p], fault).files
  /\ pc' = [pc EXCEPT ![p] = "write"]
  /\ last' = NoCall
  /\ UNCHANGED <<alive, uid, handles, op, arg, pidv, pre, denied>>

\* PidFile::new: getpid, the test pid <= 0, the write, Ok(Self)
new_write(p, fault) ==
  /\ p \in alive /\ pc[p] = "write"
  /\ LET pid == getpid(p)
         w   == write(arg[p], format(pid), fault)
     IN  IF pid <= 0 THEN Return(p, "Err(Other)", file, handles)
         ELSE IF ~w.ok THEN Return(p, "Err(io)", file, handles)
         ELSE Return(p, "Ok(handle)", w.files,
                     [handles EXCEPT ![p][arg[p]] = @ + 1])
  /\ UNCHANGED <<alive, uid, denied>>

\* a Drop that forgets the file
drop_noremove(p, path, fault) ==
  /\ p \in alive /\ pc[p] = "idle"
  /\ handles[p][path] > 0
  /\ file' = file
  /\ handles' = [handles EXCEPT ![p][path] = @ - 1]
  /\ last' = [proc |-> p, op |-> "drop", path |-> path, ret |-> "()",
              pre |-> file[path], post |-> file[path],
              held |-> handles[p][path] - 1, gain |-> -1, diag |-> FALSE]
  /\ UNCHANGED <<alive, uid, pc, op, arg, pidv, pre, denied>>

\* a Drop that unwraps remove_file's result: a failure panics
drop_unwrap(p, path, fault) ==
  /\ p \in alive /\ pc[p] = "idle"
  /\ handles[p][path] > 0
  /\ LET rm == remove_file(path, fault) IN
     /\ file' = rm.files
     /\ handles' = [handles EXCEPT ![p][path] = @ - 1]
     /\ last' = [proc |-> p, op |-> "drop", path |-> path,
                 ret |-> IF rm.ok THEN "()" ELSE "panic",
                 pre |-> file[path], post |-> rm.files[path],
                 held |-> handles[p][path] - 1, gain |-> -1,
                 diag |-> ~rm.ok]
  /\ UNCHANGED <<alive, uid, pc, op, arg, pidv, pre, denied>>

\* a Drop that removes the file only when it names the dropping process
drop_checked(p, path, fault) ==
  /\ p \in alive /\ pc[p] = "idle"
  /\ handles[p][path] > 0
  /\ LET own == file[path] # NoFile /\ parse(trim(file[path])).ok
                /\ parse(trim(file[path])).val = getpid(p)
         rm  == IF own THEN remove_file(path, fault)
                ELSE [ok |-> TRUE, files |-> file] IN
     /\ file' = rm.files
     /\ handles' = [handles EXCEPT ![p][path] = @ - 1]
     /\ last' = [proc |-> p, op |-> "drop", path |-> path, ret |-> "()",
                 pre |-> file[path], post |-> rm.files[path],
                 held |-> handles[p][path] - 1, gain |-> -1,
                 diag |-> ~rm.ok]
  /\ UNCHANGED <<alive, uid, pc, op, arg, pidv, pre, denied>>

\* Drop for PidFile: remove_file, and eprintln! when it fails
drop(p, path, fault) ==
  /\ p \in alive /\ pc[p] = "idle"
  /\ handles[p][path] > 0
  /\ LET rm == remove_file(path, fault) IN
     /\ file' = rm.files
     /\ handles' = [handles EXCEPT ![p][path] = @ - 1]
     /\ last' = [proc |-> p, op |-> "drop", path |-> path, ret |-> "()",
                 pre |-> file[path], post |-> rm.files[path],
                 held |-> handles[p][path] - 1, gain |-> -1,
                 diag |-> ~rm.ok]
  /\ UNCHANGED <<alive, uid, pc, op, arg, pidv, pre, denied>>

\* a process starts, under any principal, with an identifier not in use
Spawn(p, u) ==
  /\ p \notin alive
  /\ alive' = alive \cup {p}
  /\ uid' = [uid EXCEPT ![p] = u]
  /\ last' = NoCall
  /\ UNCHANGED <<file, handles, pc, op, arg, pidv, pre, denied>>

\* a process ends without unwinding (abort, SIGKILL): its handles vanish
\* with its memory and no Drop runs
Crash(p) ==
  /\ p \in alive
  /\ alive' = alive \ {p}
  /\ uid' = [uid EXCEPT ![p] = "u1"]
  /\ handles' = [handles EXCEPT ![p] = [f \in Paths |-> 0]]
  /\ pc' = [pc EXCEPT ![p] = "idle"]
  /\ op' = [op EXCEPT ![p] = "none"]
  /\ arg' = [arg EXCEPT ![p] = NoPath]
  /\ pidv' = [pidv EXCEPT ![p] = 0]
  /\ pre' = [pre EXCEPT ![p] = NoFile]
  /\ \E path \in Paths :
       last' = [proc |-> p, op |-> "crash", path |-> path, ret |-> "none",
                pre |-> file[path], post |-> file[path],
                held |-> handles[p][path], gain |-> 0 - handles[p][path],
                diag |-> FALSE]
  /\ UNCHANGED <<file, denied>>

\* --------------------------------------------------------- specifications
\* Spec: calls interleave between system calls; no system call fails for a
\* reason other than a missing file or process
Next ==
  \/ \E p \in Pids, path \in Paths : new_exists(p, path)
  \/ \E p \in Pids, path \in Paths : is_locked(p, path)
  \/ \E p \in Pids : pid_file_in_use_read(p, FALSE)
  \/ \E p \in Pids : pid_file_in_use_kill(p, FALSE)
  \/ \E p \in Pids : new_remove(p, FALSE)
  \/ \E p \in Pids : new_write(p, FALSE)
  \/ \E p \in Pids, path \in Paths : drop(p, path, FALSE)
  \/ \E p \in Pids, u \in Uids : Spawn(p, u)
  \/ \E p \in Pids : Crash(p)

Spec == Init /\ [][Next]_vars

\* no call of another process is under way
Quiet(p) == \A q \in Pids \ {p} : pc[q] = "idle"

AllIdle == \A q \in Pids : pc[q] = "idle"

\* SpecSerial: every call runs to completion before anything else happens
NextSerial ==
  \/ \E p \in Pids, path \in Paths : Quiet(p) /\ new_exists(p, path)
  \/ \E p \in Pids, path \in Paths : Quiet(p) /\ is_locked(p, path)
  \/ \E p \in Pids : Quiet(p) /\ pid_file_in_use_read(p, FALSE)
  \/ \E p \in Pids : Quiet(p) /\ pid_file_in_use_kill(p, FALSE)
  \/ \E p \in Pids : Quiet(p) /\ new_remove(p, FALSE)
  \/ \E p \in Pids : Quiet(p) /\ new_write(p, FALSE)
  \/ \E p \in Pids, path \in Paths : Quiet(p) /\ drop(p, path, FALSE)
  \/ \E p \in Pids, u \in Uids : AllIdle /\ Spawn(p, u)
  \/ \E p \in Pids : AllIdle /\ Crash(p)

SpecSerial == Init /\ [][NextSerial]_vars

\* SpecFaulty: SpecSerial on a filesystem whose calls may fail
NextFaulty ==
  \/ \E p \in Pids, path \in Paths : Quiet(p) /\ new_exists(p, path)
  \/ \E p \in Pids, path \in Paths : Quiet(p) /\ is_locked(p, path)
  \/ \E p \in Pids, fault \in BOOLEAN :
       Quiet(p) /\ pid_file_in_use_read(p, fault)
  \/ \E p \in Pids, fault \in BOOLEAN :
       Quiet(p) /\ pid_file_in_use_kill(p, fault)
  \/ \E p \in Pids, fault \in BOOLEAN : Quiet(p) /\ new_remove(p, fault)
  \/ \E p \in Pids, fault \in BOOLEAN : Quiet(p) /\ new_write(p, fault)
  \/ \E p \in Pids, path \in Paths, fault \in BOOLEAN :
       Quiet(p) /\ drop(p, path, fault)
  \/ \E p \in Pids, u \in Uids : AllIdle /\ Spawn(p, u)
  \/ \E p \in Pids : AllIdle /\ Crash(p)

SpecFaulty == Init /\ [][NextFaulty]_vars

\* ----------------------------------------------------------- vocabulary
\* what pid_file_in_use makes of a file's text
Parsed(t) == parse(trim(t))

\* a file whose text is no number
Malformed(t) == t # NoFile /\ ~Parsed(t).ok

\* a file whose text is the identifier q
Names(t, q) == t # NoFile /\ Parsed(t).ok /\ Parsed(t).val = q

\* a file naming a process identifier that no running process has
StaleText(t) ==
  t # NoFile /\ Parsed(t).ok /\ Parsed(t).val > 0 /\ Parsed(t).val \notin alive

\* the running processes that hold a handle for path
Holders(path) == {p \in alive : handles[p][path] > 0}

\* ------------------------------------------------------------------ C1
\* C1 (SpecSerial): PidFile::new on a path with no file returns a handle;
\* while some process holds a handle for the path, and no probe was
\* refused, is_locked returns Ok(true); a drop leaves no file at the path,
\* and is_locked on a path with no file returns Ok(false).
C1_RoundTrip ==
  /\ (last.op = "new" /\ last.pre = NoFile
        => last.ret = "Ok(handle)" /\ last.gain = 1)
  /\ (last.op = "is_locked" /\ ~denied /\ Holders(last.path) # {}
        => last.ret = "Ok(true)")
  /\ (last.op = "drop" => last.post = NoFile)
  /\ (last.op = "is_locked" /\ last.pre = NoFile
        => last.ret = "Ok(false)" /\ last.post = NoFile)

\* the holder of a handle acquired on a fresh path asks and is told "locked"
C1_Witness ==
  /\ last.op = "is_locked" /\ last.ret = "Ok(true)"
  /\ last.held = 1 /\ last.pre = format(last.proc) /\ ~denied

\* ------------------------------------------------------------------ C2
\* C2 as claimed (SpecSerial): PidFile::new on a file naming any running
\* process fails with AddrInUse, returns no handle and leaves the file as
\* it was.
C2_AnyLiveHolder ==
  last.op = "new" /\ last.pre # NoFile /\ Parsed(last.pre).ok
    /\ Parsed(last.pre).val \in alive
    => last.ret = "Err(AddrInUse)" /\ last.gain = 0 /\ last.post = last.pre

\* C2 amended (SpecSerial): PidFile::new on a file naming a running process
\* of the caller's own principal (the caller itself in particular) fails
\* with AddrInUse, returns no handle and leaves the file as it was.
C2_Contention ==
  last.op = "new" /\ last.pre # NoFile /\ Parsed(last.pre).ok
    /\ Parsed(last.pre).val \in alive
    /\ uid[Parsed(last.pre).val] = uid[last.proc]
    => last.ret = "Err(AddrInUse)" /\ last.gain = 0 /\ last.post = last.pre

\* a process that holds a handle for the path calls new on it again
C2_Witness ==
  /\ last.op = "new" /\ last.ret = "Err(AddrInUse)"
  /\ last.held = 1 /\ Names(last.pre, last.proc)

\* ------------------------------------------------------------------ C3
\* C3 as claimed (SpecSerial): at most one running process holds a handle
\* for a path.
C3_AtMostOneHolder == \A path \in Paths : Cardinality(Holders(path)) <= 1

\* C3 amended (SpecSerial): as long as no liveness probe of a running
\* process was refused, at most one running process holds a handle for a
\* path.
C3_MutualExclusion == ~denied => C3_AtMostOneHolder

\* a second process was turned away by the holder's marker
C3_Witness ==
  /\ ~denied /\ last.op = "new" /\ last.ret = "Err(AddrInUse)"
  /\ \E q \in Holders(last.path) : q # last.proc

\* ------------------------------------------------------------------ C4
\* C4 as claimed: while a running process holds a handle for a path, the
\* file at the path names that process.
C4_HandleNamesHolder ==
  \A path \in Paths : \A p \in Holders(path) : Names(file[path], p)

\* C4 amended (SpecSerial): when calls run to completion one at a time and
\* no liveness probe of a running process was refused, the file at a path
\* names the running process that holds a handle for it.
C4_HandleInvariant == ~denied => C4_HandleNamesHolder

\* a handle is live and another call on its path has come and gone
C4_Witness ==
  /\ ~denied /\ last.op = "is_locked" /\ last.held = 0
  /\ \E q \in Holders(last.path) : Names(file[last.path], q)

\* ------------------------------------------------------------------ C5
\* C5 (SpecSerial): is_locked on a file naming a process identifier that
\* no running process has returns Ok(false) and has deleted the file.
C5_StaleQueryDeletes ==
  last.op = "is_locked" /\ StaleText(last.pre)
    => last.ret = "Ok(false)" /\ last.post = NoFile

\* ------------------------------------------------------------------ C6
\* C6 (SpecSerial): a process that ends without unwinding leaves the file
\* as it is, naming it if it held a handle; is_locked on a file naming a
\* process that is gone returns Ok(false) and leaves the path stale or
\* empty; PidFile::new on such a path, stale or empty, returns a handle and
\* the file then names the caller.
C6_NoLockOut ==
  /\ (last.op = "crash"
        => /\ last.post = last.pre
           /\ (~denied /\ last.held > 0 => Names(last.post, last.proc)))
  /\ (last.op = "is_locked" /\ StaleText(last.pre)
        => last.ret = "Ok(false)" /\ last.post \in {last.pre, NoFile})
  /\ (last.op = "new" /\ (StaleText(last.pre) \/ last.pre = NoFile)
        => /\ last.ret = "Ok(handle)" /\ last.gain = 1
           /\ Names(last.post, last.proc))

\* a process takes over the path whose marker names a process that is gone
C6_Witness ==
  /\ last.op = "new" /\ last.ret = "Ok(handle)"
  /\ \E q \in Pids \ alive : q # last.proc /\ Names(last.pre, q)

C8_MalformedAcquire ==
  /\ (last.op = "new" => last.ret # "Err(InvalidData)")
  /\ (last.op = "new" /\ Malformed(last.pre)
        => /\ last.ret = "Ok(handle)" /\ last.gain = 1
           /\ last.post = format(last.proc))
  /\ \A p \in Pids :
       pc[p] = "write" /\ Malformed(pre[p]) => file[arg[p]] = NoFile
  /\ (last.op = "is_locked" /\ last.held > 0 /\ ~denied
        => last.ret = "Ok(true)")

C8_Witness ==
  /\ last.op = "new" /\ last.pre = <<"9", "x">>
  /\ last.ret = "Ok(handle)" /\ last.post = format(last.proc)

\* ------------------------------------------------------------------ C9
\* C9 (SpecSerial): is_locked on a path with no file returns Ok(false),
\* prints nothing, creates no file and no handle.
C9_Absence ==
  last.op = "is_locked" /\ last.pre = NoFile
    => /\ last.ret = "Ok(false)" /\ last.post = NoFile
       /\ last.gain = 0 /\ ~last.diag

C9_Witness ==
  /\ last.op = "is_locked" /\ last.pre = NoFile /\ last.ret = "Ok(false)"
  /\ file[last.path] = NoFile

\* ------------------------------------------------------------------ C10
\* C10 (SpecFaulty): a drop whose remove_file fails (no file was there, or
\* the file is still there afterwards) returns normally to a process that
\* goes on running, prints a diagnostic, releases the handle and leaves the
\* path as it was: absent if it was absent.
C10_BestEffortRelease ==
  last.op = "drop" /\ (last.pre = NoFile \/ last.post # NoFile)
    => /\ last.ret = "()" /\ last.diag
       /\ last.post = last.pre /\ last.gain = -1
       /\ last.proc \in alive /\ pc[last.proc] = "idle"

\* a handle is dropped after its file was deleted by someone else
C10_Witness ==
  last.op = "drop" /\ last.pre = NoFile /\ last.diag /\ last.post = NoFile

\* ------------------------------------------------------------------ C11
\* a text that is a positive decimal numeral and nothing else: digits only,
\* no sign, no leading zero, no whitespace
PlainNumeral(t) ==
  /\ t # NoFile /\ Len(t) > 0 /\ t[1] # "0"
  /\ \A i \in 1..Len(t) : IsDigit(t[i])

\* C11 (SpecFaulty): when PidFile::new returns a handle, whatever the path
\* held before and whether or not the removal of the old file worked, the
\* file is exactly the decimal numeral of the caller's identifier, and the
\* caller has one handle more for the path it passed.
C11_AcquirePostcondition ==
  last.op = "new" /\ last.ret = "Ok(handle)"
    => /\ PlainNumeral(last.post)
       /\ parse(last.post) = [ok |-> TRUE, val |-> last.proc]
       /\ last.post = format(last.proc)
       /\ last.path \in Paths /\ last.gain = 1
       /\ file[last.path] = last.post
       /\ handles[last.proc][last.path] = last.held

\* a handle was returned for a path that held a malformed marker
C11_Witness ==
  /\ last.op = "new" /\ last.ret = "Ok(handle)" /\ Malformed(last.pre)
  /\ last.post = format(last.proc) /\ last.proc >= 10

\* ------------------------------------------------------------------ C12
\* process p takes a step of its is_locked call (the call itself, the read
\* or the probe) and is still running afterwards
QueryStep(p) ==
  /\ p \in alive /\ p \in alive'
  /\ pc'[p] # pc[p]
  /\ (op[p] = "is_locked" \/ op'[p] = "is_locked")

NonPositive(t) == t # NoFile /\ Parsed(t).ok /\ Parsed(t).val <= 0

\* C13 (SpecSerial): a marker whose content is "0" or "-1" counts as
\* malformed: is_locked returns Ok(false) and leaves it, PidFile::new
\* replaces it and returns a handle, and no probe is ever made with an
\* identifier that is not positive.
C13_NonPositiveIsMalformed ==
  /\ last.op = "is_locked" /\ NonPositive(last.pre)
       => last.ret = "Ok(false)" /\ last.post = last.pre
  /\ last.op = "new" /\ NonPositive(last.pre)
       => last.ret = "Ok(handle)" /\ last.post = format(last.proc)
  /\ \A p \in Pids : pc[p] = "kill" => pidv[p] > 0

\* ------------------------------------------------------------------ C14
\* the text names a running process that process p may not signal
NamesForeign(t, p) ==
  \E q \in alive : Names(t, q) /\ uid[q] # uid[p]

\* C14 (SpecSerial): a marker naming a running process whose probe is
\* refused for lack of permission counts as dead: is_locked returns
\* Ok(false) and leaves the file, PidFile::new replaces the marker with the
\* caller's own identifier and returns a handle.
C14_DeniedProbeIsDead ==
  /\ last.op = "is_locked" /\ NamesForeign(last.pre, last.proc)
       => last.ret = "Ok(false)" /\ last.post = last.pre
  /\ last.op = "new" /\ NamesForeign(last.pre, last.proc)
       => /\ last.ret = "Ok(handle)" /\ last.gain = 1
          /\ last.post = format(last.proc)
          /\ ~Names(last.post, Parsed(last.pre).val)

\* PidFile::new has just returned a handle over the marker of a running
\* process of another principal, which still holds its own handle
C14_Witness ==
  /\ last.op = "new" /\ last.ret = "Ok(handle)"
  /\ NamesForeign(last.pre, last.proc)
  /\ Parsed(last.pre).val \in Holders(last.path)
  /\ denied

\* ------------------------------------------------------------------ C15
\* C15 (SpecFaulty): when the probe fails for a reason that is neither a
\* missing process nor a missing permission, the call returns that error:
\* is_locked and PidFile::new both end there, with no file deleted or
\* written and no handle made.
C15_ProbeErrorPropagates ==
  [][\A p \in Pids : pid_file_in_use_kill(p, TRUE) =>
        /\ pc'[p] = "idle" /\ last'.ret = "Err(io)"
        /\ file' = file /\ handles' = handles]_vars

C17_LastWriterWins ==
  /\ last.op = "new" /\ last.ret = "Ok(handle)"
  /\ Holders(last.path) \ {last.proc} # {}
  => /\ file[last.path] = format(last.proc)
     /\ last.proc \in Holders(last.path)
     /\ \A q \in Holders(last.path) \ {last.proc} :
          ~Names(file[last.path], q)

\* both processes of one principal hold a handle for the path, no probe
\* was ever refused, the second has just been returned its handle after
\* finding no file at its first test, and the marker names the second
C17_Witness ==
  \E q \in Pids \ {last.proc} :
    /\ last.op = "new" /\ last.ret = "Ok(handle)" /\ last.pre = NoFile
    /\ Holders(last.path) = {last.proc, q}
    /\ uid[q] = uid[last.proc] /\ ~denied
    /\ pc[q] = "idle"
    /\ Names(file[last.path], last.proc)

\* ------------------------------------------------------------------ C18
\* C18 (Spec): Drop removes the marker whatever it contains, the
\* identifier of another running holder included, so a handle can be alive
\* with no marker on disk; and a PidFile::new that finds no file returns a
\* handle whoever else holds one.
C18_ReleaseIgnoresOwner ==
  /\ last.op = "drop" => last.post = NoFile /\ file[last.path] = NoFile
  /\ last.op = "new" /\ last.pre = NoFile
       => last.ret = "Ok(handle)" /\ last.gain = 1

\* a process has just dropped its handle and with it removed the marker
\* naming another running process of its own principal, which still holds
\* its handle; no probe was ever refused
C18_Witness ==
  \E q \in Pids \ {last.proc} :
    /\ last.op = "drop" /\ Names(last.pre, q) /\ last.post = NoFile
    /\ q \in Holders(last.path) /\ uid[q] = uid[last.proc] /\ ~denied
    /\ file[last.path] = NoFile

\* after such a release, a third call of PidFile::new has returned a second
\* handle to the process whose marker was removed
C18_ThirdAcquire ==
  /\ last.op = "new" /\ last.ret = "Ok(handle)" /\ last.pre = NoFile
  /\ last.held = 2 /\ ~denied

\* ------------------------------------------------------------------ C19
\* process p takes a step of its PidFile::new call and is still running
AcquireStep(p) ==
  /\ p \in alive /\ p \in alive'
  /\ op[p] = "new" /\ pc'[p] # pc[p]

\* C19 (Spec): a marker that was there at the existence test of
\* PidFile::new and is gone when new reads it, or when new removes it, is
\* no error: the read takes the path for not locked and goes on to the
\* removal, the removal of nothing goes on to the write, and the write
\* stores the caller's identifier and returns a handle.
C19_VanishedMarker ==
  [][\A p \in Pids : AcquireStep(p) /\ ~exists(arg[p]) =>
        /\ pc[p] = "read" => pc'[p] = "remove" /\ file' = file
        /\ pc[p] = "remove" => pc'[p] = "write" /\ file' = file
        /\ pc[p] = "write" =>
             /\ last'.op = "new" /\ last'.proc = p
             /\ last'.ret = "Ok(handle)" /\ last'.gain = 1
             /\ file'[arg[p]] = format(p)]_vars

\* PidFile::new saw a marker at its existence test, has gone through
\* pid_file_in_use and is about to remove the marker, which is gone
C19_Witness ==
  \E p \in Pids :
    /\ p \in alive /\ op[p] = "new" /\ pc[p] = "remove"
    /\ pre[p] # NoFile /\ ~exists(arg[p])

====
